---- MODULE Spec2Model ----
(***************************************************************************)
(* Speelweek / ticket-accounting engine of the cinema back office          *)
(* (src/cinema_borderel.py).                                               *)
(*                                                                         *)
(* Representation                                                          *)
(*   dates       day ordinals; day 0 is a Monday, so weekday(d) = d % 7    *)
(*   money       stored amounts are integer cents (2-decimal values);      *)
(*               amounts read from a CSV file are integer mills            *)
(*               (1/10 cent) so that rounding to 2 decimals is visible     *)
(*   rates       integers in units of 1/RateScale (0.0566 is 566)          *)
(*   settings    a function key -> value, NoSetting when the key has no row*)
(*   NULL zaal   zaal_id 0 (the queries use COALESCE(zaal_id,0))           *)
(*   calls       the database calls in flight of two sessions that work on *)
(*               the same database (empty while one session works alone)   *)
(***************************************************************************)
EXTENDS Integers, Sequences, FiniteSets, TLC

\* ------------------------------------------------------------------ bounds
MaxWeek == 2
MaxQty == 1
MaxSteps == 4
MaxWeeknr == 2
TicketStart == 5

\* ------------------------------------------------------- program constants
DEFAULT_BTW_RATE == 566
DEFAULT_AUTEURS_RATE == 120
DEFAULT_TICKET_COUNTER_VOLW == 1
DEFAULT_TICKET_COUNTER_KIND == 1
DEFAULT_WEEK_START_WEEKDAY == 1
DEFAULT_WEEK_COUNTER == 1
RateScale == 10000
NoSetting == -1
InvalidSetting == -2

SettingKeys ==
  {"week_start_weekday", "week_counter", "btw_rate", "auteurs_rate",
   "ticket_counter_volw", "ticket_counter_kind"}

\* ------------------------------------------------------------ input sets
PriceMills == 20
Weekdays == 0..6

VARIABLES settings, speelweek, films, zalen, daily_sales, ticket_ranges,
          tree, statements, last, steps, calls

vars == <<settings, speelweek, films, zalen, daily_sales, ticket_ranges,
          tree, statements, last, steps, calls>>

\* ---------------------------------------------------------------- helpers
weekday(d) == d % 7
\* variant: the end number is one too high (the next week would skip a number)
calc_ticket_end_skip(begin, qty) ==
  IF qty > 0 THEN begin + qty ELSE begin - 1


calc_ticket_end(begin, qty) ==
  IF qty > 0 THEN begin + qty - 1 ELSE begin - 1
\* variant: the difference of the weekdays is taken the other way round
speelweek_range_reversed(d, week_start_weekday) ==
  LET days_since_start == (week_start_weekday - weekday(d)) % 7
      start == d - days_since_start
  IN  [start |-> start, end |-> start + 7]


speelweek_range(d, week_start_weekday) ==
  LET days_since_start == (weekday(d) - week_start_weekday) % 7
      start == d - days_since_start
  IN  [start |-> start, end |-> start + 7]

\* round(x, 2) and "%.2f": x given as the fraction num/den of a cent, the
\* result in whole cents (nearest cent; the inputs used never lie exactly
\* half-way, where the binary representation of the float would decide).
Round2(num, den) == (2 * num + den) \div (2 * den)

\* -------------------------------------------------------------- settings
db_get_setting(st, key) == st[key]

db_set_setting(st, key, value) == [st EXCEPT ![key] = value]

\* variant: the stored value is ignored
db_get_int_setting_default(st, key, default) == [value |-> default, settings |-> st]

\* result: the value read and the settings afterwards (default persisted)
db_get_int_setting(st, key, default) ==
  IF st[key] \in {NoSetting, InvalidSetting}
  THEN [value |-> default, settings |-> db_set_setting(st, key, default)]
  ELSE [value |-> st[key], settings |-> st]

db_get_float_setting(st, key, default) ==
  IF st[key] \in {NoSetting, InvalidSetting}
  THEN [value |-> default, settings |-> db_set_setting(st, key, default)]
  ELSE [value |-> st[key], settings |-> st]

db_get_week_start_weekday(st) ==
  IF st["week_start_weekday"] = NoSetting
  THEN [value |-> DEFAULT_WEEK_START_WEEKDAY,
        settings |-> db_set_setting(st, "week_start_weekday", DEFAULT_WEEK_START_WEEKDAY)]
  ELSE IF st["week_start_weekday"] \in 0..6
  THEN [value |-> st["week_start_weekday"], settings |-> st]
  ELSE [value |-> DEFAULT_WEEK_START_WEEKDAY,
        settings |-> db_set_setting(st, "week_start_weekday", DEFAULT_WEEK_START_WEEKDAY)]

\* variant: the lookup never finds a row
SpeelweekIdFor_none(sw, start, end) == 0

\* -------------------------------------------------------------- speelweek
\* speelweek is the table as a sequence; the row id is the index.
SpeelweekIdFor(sw, start, end) ==
  IF \E i \in 1..Len(sw) : sw[i].start_datum = start /\ sw[i].eind_datum = end
  THEN CHOOSE i \in 1..Len(sw) : sw[i].start_datum = start /\ sw[i].eind_datum = end
  ELSE 0

\* variant: the counter is written back without the increment
NextWeekCounter_same(weeknummer) == weeknummer

\* the counter value persisted after a week got the number weeknummer
NextWeekCounter(weeknummer) == weeknummer + 1

\* fault names the persistence call of this invocation that raises ("none":
\* no call raises); error = the function ended with an exception
db_get_or_create_speelweek(st, sw, d, fault) ==
  LET ws  == db_get_week_start_weekday(st)
      rng == speelweek_range(d, ws.value)
      id  == SpeelweekIdFor(sw, rng.start, rng.end)
      failed(st0, sw0) == [id |-> 0, weeknummer |-> 0, created |-> FALSE, error |-> TRUE,
                           settings |-> st0, speelweek |-> sw0]
  IN  IF id # 0
      THEN [id |-> id, weeknummer |-> sw[id].weeknummer, created |-> FALSE,
            error |-> FALSE, settings |-> ws.settings, speelweek |-> sw]
      ELSE IF fault = "counter_read" \/ ws.settings["week_counter"] = InvalidSetting
      THEN failed(ws.settings, sw)
      ELSE LET st1 == IF ws.settings["week_counter"] = NoSetting
                      THEN db_set_setting(ws.settings, "week_counter", DEFAULT_WEEK_COUNTER)
                      ELSE ws.settings
               weeknummer == st1["week_counter"]
               row == [weeknummer |-> weeknummer, start_datum |-> rng.start,
                       eind_datum |-> rng.end]
           IN  IF fault = "insert" THEN failed(st1, sw)
               ELSE IF fault = "counter_write" THEN failed(st1, Append(sw, row))
               ELSE [id |-> Len(sw) + 1, weeknummer |-> weeknummer, created |-> TRUE,
                     error |-> FALSE,
                     settings |-> db_set_setting(st1, "week_counter", NextWeekCounter(weeknummer)),
                     speelweek |-> Append(sw, row)]

\* variant: the UPDATE has no WHERE clause
db_update_speelweek_weeknummer_all(sw, speelweek_id, new_weeknr) ==
  [i \in 1..Len(sw) |-> [sw[i] EXCEPT !.weeknummer = new_weeknr]]

db_update_speelweek_weeknummer(sw, speelweek_id, new_weeknr) ==
  [i \in 1..Len(sw) |->
     IF i = speelweek_id THEN [sw[i] EXCEPT !.weeknummer = new_weeknr] ELSE sw[i]]

\* ------------------------------------------------------------ films, zalen
db_get_film_by_interne_titel(fl, titel) ==
  IF \E i \in 1..Len(fl) : fl[i] = titel
  THEN CHOOSE i \in 1..Len(fl) : fl[i] = titel
  ELSE 0

db_create_film(fl, titel) == [id |-> Len(fl) + 1, films |-> Append(fl, titel)]

db_get_or_create_zaal(zl, naam) ==
  IF naam = 0 THEN [id |-> 0, zalen |-> zl]
  ELSE IF \E i \in 1..Len(zl) : zl[i] = naam
  THEN [id |-> CHOOSE i \in 1..Len(zl) : zl[i] = naam, zalen |-> zl]
  ELSE [id |-> Len(zl) + 1, zalen |-> Append(zl, naam)]

ZaalNaam(zl, zaal_id) == IF zaal_id = 0 THEN 0 ELSE zl[zaal_id]

\* variant: on a duplicate key the quantities are added to the stored ones
db_upsert_daily_sales_add(ds, datum, speelweek_id, film_id, zaal_id, is_3d, aantal_volw, aantal_kind, gratis_volw, gratis_kind, bedrag_volw, bedrag_kind, totaal_aantal, totaal_bedrag, source_file) ==
  LET key == <<datum, film_id, zaal_id>>
      old == IF key \in DOMAIN ds THEN ds[key]
             ELSE [aantal_volw |-> 0, aantal_kind |-> 0, totaal_aantal |-> 0]
      row == [speelweek_id |-> speelweek_id, is_3d |-> is_3d,
              aantal_volw |-> old.aantal_volw + aantal_volw,
              aantal_kind |-> old.aantal_kind + aantal_kind,
              gratis_volw |-> gratis_volw, gratis_kind |-> gratis_kind,
              bedrag_volw |-> Round2(bedrag_volw, 10),
              bedrag_kind |-> Round2(bedrag_kind, 10),
              totaal_aantal |-> old.totaal_aantal + totaal_aantal,
              totaal_bedrag |-> Round2(totaal_bedrag, 10),
              source_file |-> source_file]
  IN  [k \in DOMAIN ds \cup {key} |-> IF k = key THEN row ELSE ds[k]]

\* variant: on a duplicate key the free counts are added to the stored ones
db_upsert_daily_sales_add_free(ds, datum, speelweek_id, film_id, zaal_id, is_3d, aantal_volw, aantal_kind, gratis_volw, gratis_kind, bedrag_volw, bedrag_kind, totaal_aantal, totaal_bedrag, source_file) ==
  LET key == <<datum, film_id, zaal_id>>
      dup == key \in DOMAIN ds
      gv == IF dup THEN ds[key].gratis_volw + gratis_volw ELSE gratis_volw
      gk == IF dup THEN ds[key].gratis_kind + gratis_kind ELSE gratis_kind
      row == [speelweek_id |-> speelweek_id, is_3d |-> is_3d,
              aantal_volw |-> aantal_volw, aantal_kind |-> aantal_kind,
              gratis_volw |-> gv, gratis_kind |-> gk,
              bedrag_volw |-> Round2(bedrag_volw, 10),
              bedrag_kind |-> Round2(bedrag_kind, 10),
              totaal_aantal |-> aantal_volw + aantal_kind + gv + gk,
              totaal_bedrag |-> Round2(totaal_bedrag, 10),
              source_file |-> source_file]
  IN  [k \in DOMAIN ds \cup {key} |-> IF k = key THEN row ELSE ds[k]]

\* ------------------------------------------------------------ daily_sales
\* daily_sales is a function from the unique key <<datum, film_id, zaal_id>>
\* of the table to the row's other columns.
db_upsert_daily_sales(ds, datum, speelweek_id, film_id, zaal_id, is_3d, aantal_volw, aantal_kind, gratis_volw, gratis_kind, bedrag_volw, bedrag_kind, totaal_aantal, totaal_bedrag, source_file) ==
  LET key == <<datum, film_id, zaal_id>>
      row == [speelweek_id |-> speelweek_id, is_3d |-> is_3d,
              aantal_volw |-> aantal_volw, aantal_kind |-> aantal_kind,
              gratis_volw |-> gratis_volw, gratis_kind |-> gratis_kind,
              bedrag_volw |-> Round2(bedrag_volw, 10),
              bedrag_kind |-> Round2(bedrag_kind, 10),
              totaal_aantal |-> totaal_aantal,
              totaal_bedrag |-> Round2(totaal_bedrag, 10),
              source_file |-> source_file]
  IN  [k \in DOMAIN ds \cup {key} |-> IF k = key THEN row ELSE ds[k]]

RECURSIVE SumField(_, _, _)
SumField(ds, keys, field) ==
  IF keys = {} THEN 0
  ELSE LET k == CHOOSE x \in keys : TRUE
       IN  ds[k][field] + SumField(ds, keys \ {k}, field)

WeekKeys(ds, speelweek_id, film_id, zaal_id) ==
  {k \in DOMAIN ds : ds[k].speelweek_id = speelweek_id /\ k[2] = film_id /\ k[3] = zaal_id}

db_sum_paid_qty_for_speelweek(ds, speelweek_id, film_id, zaal_id) ==
  LET keys == WeekKeys(ds, speelweek_id, film_id, zaal_id)
  IN  [volw |-> SumField(ds, keys, "aantal_volw"),
       kind |-> SumField(ds, keys, "aantal_kind")]

\* ----------------------------------------------------------- ticket_ranges
\* ticket_ranges is a function from <<speelweek_id, film_id, zaal_id>> to
\* the begin numbers.
_insert_ticket_range(tr, speelweek_id, film_id, zaal_id, begin_volw, begin_kind) ==
  LET key == <<speelweek_id, film_id, zaal_id>>
  IN  [k \in DOMAIN tr \cup {key} |->
         IF k = key THEN [begin_volw |-> begin_volw, begin_kind |-> begin_kind]
         ELSE tr[k]]

\* the ticket ranges of the same film + zaal in a speelweek that starts earlier
PrevRangeKeys(sw, tr, film_id, zaal_id, start_datum) ==
  {k \in DOMAIN tr : /\ k[2] = film_id /\ k[3] = zaal_id
                     /\ k[1] \in 1..Len(sw)
                     /\ sw[k[1]].start_datum < start_datum}

\* ORDER BY sw2.start_datum DESC LIMIT 1
PrevRangeKey(sw, tr, film_id, zaal_id, start_datum) ==
  LET S == PrevRangeKeys(sw, tr, film_id, zaal_id, start_datum)
  IN  CHOOSE k \in S : \A k2 \in S : sw[k2[1]].start_datum <= sw[k[1]].start_datum

\* variant: the global counter is left as it is
MaxCounter_keep(current, new_begin) == current

\* max(current global counter, new begin number)
MaxCounter(current, new_begin) == IF current >= new_begin THEN current ELSE new_begin

\* variant: the lookup of an existing range never finds one
RangeExists_never(tr, key) == FALSE

\* "bestaat al?": the lookup of the range of this exact key
RangeExists(tr, key) == key \in DOMAIN tr

db_get_or_create_ticket_range(st, sw, ds, tr, speelweek_id, film_id, zaal_id) ==
  LET key == <<speelweek_id, film_id, zaal_id>>
      cv  == db_get_int_setting(st, "ticket_counter_volw", DEFAULT_TICKET_COUNTER_VOLW)
      ck  == db_get_int_setting(cv.settings, "ticket_counter_kind", DEFAULT_TICKET_COUNTER_KIND)
  IN  IF RangeExists(tr, key)
      THEN [begin_volw |-> tr[key].begin_volw, begin_kind |-> tr[key].begin_kind,
            created |-> FALSE, settings |-> st, ticket_ranges |-> tr]
      ELSE IF speelweek_id \notin 1..Len(sw)
      THEN [begin_volw |-> cv.value, begin_kind |-> ck.value, created |-> TRUE,
            settings |-> ck.settings,
            ticket_ranges |-> _insert_ticket_range(tr, speelweek_id, film_id, zaal_id,
                                                   cv.value, ck.value)]
      ELSE LET start_datum == sw[speelweek_id].start_datum
               hasPrev == PrevRangeKeys(sw, tr, film_id, zaal_id, start_datum) # {}
               prev == PrevRangeKey(sw, tr, film_id, zaal_id, start_datum)
               qty  == db_sum_paid_qty_for_speelweek(ds, prev[1], film_id, zaal_id)
               new_begin_volw == IF hasPrev
                                 THEN calc_ticket_end(tr[prev].begin_volw, qty.volw) + 1
                                 ELSE cv.value
               new_begin_kind == IF hasPrev
                                 THEN calc_ticket_end(tr[prev].begin_kind, qty.kind) + 1
                                 ELSE ck.value
               st1 == IF hasPrev THEN st ELSE ck.settings
               \* globale counters laten meegroeien
               gv  == db_get_int_setting(st1, "ticket_counter_volw", 1)
               st2 == db_set_setting(gv.settings, "ticket_counter_volw",
                                     MaxCounter(gv.value, new_begin_volw))
               gk  == db_get_int_setting(st2, "ticket_counter_kind", 1)
               st3 == db_set_setting(gk.settings, "ticket_counter_kind",
                                     MaxCounter(gk.value, new_begin_kind))
           IN  [begin_volw |-> new_begin_volw, begin_kind |-> new_begin_kind,
                created |-> TRUE, settings |-> st3,
                ticket_ranges |-> _insert_ticket_range(tr, speelweek_id, film_id, zaal_id,
                                                       new_begin_volw, new_begin_kind)]

\* ------------------------------------------------------------- statement
\* db_fetch_week_sales_for_film_zaal: the rows of one speelweek + film whose
\* zaal name (COALESCE(z.naam,'')) is zaal_naam
db_fetch_week_sales_for_film_zaal(ds, zl, speelweek_id, film_id, zaal_naam) ==
  {k \in DOMAIN ds : /\ ds[k].speelweek_id = speelweek_id
                     /\ k[2] = film_id
                     /\ ZaalNaam(zl, k[3]) = zaal_naam}

\* a quotient a / b kept as a fraction; den = 0 records a division by zero
Quot(a, b) == [num |-> a, den |-> b]
ZeroPrice == [num |-> 0, den |-> 1]

\* variant: the VAT is added to the gross amount
NettoTotal_plus(gross_total, btw_total) == gross_total * RateScale + btw_total

\* netto_total, in 1/RateScale cent
NettoTotal(gross_total, btw_total) == gross_total * RateScale - btw_total

\* variant: the division is made without looking at the quantity
WeekPrice_unguarded(amt, qty) == Quot(amt, qty)

\* volw_price / kind_price: the week's unit price, 0.0 without paid tickets
WeekPrice(amt, qty) == IF qty # 0 THEN Quot(amt, qty) ELSE ZeroPrice

ZeroLine == [av |-> 0, ak |-> 0, gv |-> 0, gk |-> 0]

\* variant: the day lines start on the day after week_start_d
day_lines_from_next_day(ds, week_keys, week_start_d) ==
  [i \in 0..6 |->
     LET hit == {k \in week_keys : k[1] = week_start_d + i + 1}
         r == ds[CHOOSE k \in hit : TRUE]
     IN  IF hit = {} THEN ZeroLine
         ELSE [av |-> r.aantal_volw, ak |-> r.aantal_kind,
               gv |-> r.bedrag_volw, gk |-> r.bedrag_kind]]

\* the seven day lines of a statement: for i in range(7) the row of
\* rows_by_date for week_start_d + i, zeros without a row
day_lines(ds, week_keys, week_start_d) ==
  [i \in 0..6 |->
     LET hit == {k \in week_keys : k[1] = week_start_d + i}
         r == ds[CHOOSE k \in hit : TRUE]
     IN  IF hit = {} THEN ZeroLine
         ELSE [av |-> r.aantal_volw, ak |-> r.aantal_kind,
               gv |-> r.bedrag_volw, gk |-> r.bedrag_kind]]

\* generate_borderel_bo1_pdf: the figures of one statement; week_keys are the
\* keys of the week's daily_sales rows (not empty), meta the first row by datum
generate_borderel_bo1_pdf(st, sw, ds, tr, week_keys, btw_rate, auteurs_rate) ==
  LET meta == CHOOSE k \in week_keys : \A k2 \in week_keys : k[1] <= k2[1]
      speelweek_id == ds[meta].speelweek_id
      film_id == meta[2]
      zaal_id == meta[3]
      volw_qty == SumField(ds, week_keys, "aantal_volw")
      kind_qty == SumField(ds, week_keys, "aantal_kind")
      volw_amt == SumField(ds, week_keys, "bedrag_volw")
      kind_amt == SumField(ds, week_keys, "bedrag_kind")
      gratis_volw == SumField(ds, week_keys, "gratis_volw")
      gratis_kind == SumField(ds, week_keys, "gratis_kind")
      gross_total == volw_amt + kind_amt
      tickets_total == volw_qty + kind_qty
      btw_total == gross_total * btw_rate
      netto_total == NettoTotal(gross_total, btw_total)
      auteurs_total == netto_total * auteurs_rate
      verschil == netto_total * RateScale - auteurs_total
      volw_price == WeekPrice(volw_amt, volw_qty)
      kind_price == WeekPrice(kind_amt, kind_qty)
      rng == db_get_or_create_ticket_range(st, sw, ds, tr, speelweek_id, film_id, zaal_id)
  IN  [settings |-> rng.settings, ticket_ranges |-> rng.ticket_ranges,
       created |-> rng.created,
       stmt |-> [speelweek_id |-> speelweek_id, film_id |-> film_id, zaal_id |-> zaal_id,
                 volw_qty |-> volw_qty, kind_qty |-> kind_qty,
                 volw_amt |-> volw_amt, kind_amt |-> kind_amt,
                 gratis_total |-> gratis_volw + gratis_kind,
                 gross_total |-> gross_total, tickets_total |-> tickets_total,
                 btw_rate |-> btw_rate, auteurs_rate |-> auteurs_rate,
                 btw_total |-> btw_total, netto_total |-> netto_total,
                 auteurs_total |-> auteurs_total, verschil |-> verschil,
                 volw_price |-> volw_price, kind_price |-> kind_price,
                 day_lines |-> day_lines(ds, week_keys, sw[speelweek_id].start_datum),
                 begin_volw |-> rng.begin_volw,
                 end_volw |-> calc_ticket_end(rng.begin_volw, volw_qty),
                 begin_kind |-> rng.begin_kind,
                 end_kind |-> calc_ticket_end(rng.begin_kind, kind_qty)]]

\* variant: the period is not applied to the rows
ComboSet_all(ds, from_date, to_date) ==
  {<<ds[k].speelweek_id, k[2], k[3]>> : k \in DOMAIN ds}

\* db_fetch_borderel_combos: DISTINCT (speelweek, film, zaal) of the rows with
\* datum BETWEEN from_date AND to_date
ComboSet(ds, from_date, to_date) ==
  {<<ds[k].speelweek_id, k[2], k[3]>> : k \in {x \in DOMAIN ds : from_date <= x[1] /\ x[1] <= to_date}}

\* variant: ORDER BY sw.start_datum DESC
ComboBefore_desc(sw, zl, fl, a, b) ==
  LET sa == sw[a[1]].start_datum
      sb == sw[b[1]].start_datum
      za == ZaalNaam(zl, a[3])
      zb == ZaalNaam(zl, b[3])
  IN  \/ sa > sb
      \/ sa = sb /\ za < zb
      \/ sa = sb /\ za = zb /\ fl[a[2]] <= fl[b[2]]

\* ORDER BY sw.start_datum ASC, zaal ASC, f.interne_titel ASC
ComboBefore(sw, zl, fl, a, b) ==
  LET sa == sw[a[1]].start_datum
      sb == sw[b[1]].start_datum
      za == ZaalNaam(zl, a[3])
      zb == ZaalNaam(zl, b[3])
  IN  \/ sa < sb
      \/ sa = sb /\ za < zb
      \/ sa = sb /\ za = zb /\ fl[a[2]] <= fl[b[2]]

RECURSIVE SortCombos(_, _, _, _)
SortCombos(sw, zl, fl, S) ==
  IF S = {} THEN <<>>
  ELSE LET c == CHOOSE x \in S : \A y \in S : ComboBefore(sw, zl, fl, x, y)
       IN  <<c>> \o SortCombos(sw, zl, fl, S \ {c})

db_fetch_borderel_combos(sw, zl, fl, ds, from_date, to_date) ==
  SortCombos(sw, zl, fl, ComboSet(ds, from_date, to_date))

\* the loop of export_borderels_pdf_bo1 over the combos from index i on;
\* acc = [settings, ticket_ranges, statements]
RECURSIVE ExportLoop(_, _, _, _, _, _, _, _)
ExportLoop(combos, i, sw, zl, ds, btw_rate, auteurs_rate, acc) ==
  IF i > Len(combos) THEN acc
  ELSE LET c == combos[i]
           week_rows == db_fetch_week_sales_for_film_zaal(ds, zl, c[1], c[2], ZaalNaam(zl, c[3]))
           g == generate_borderel_bo1_pdf(acc.settings, sw, ds, acc.ticket_ranges,
                                          week_rows, btw_rate, auteurs_rate)
       IN  IF week_rows = {}
           THEN ExportLoop(combos, i + 1, sw, zl, ds, btw_rate, auteurs_rate, acc)
           ELSE ExportLoop(combos, i + 1, sw, zl, ds, btw_rate, auteurs_rate,
                           [settings |-> g.settings, ticket_ranges |-> g.ticket_ranges,
                            statements |-> Append(acc.statements, g.stmt)])

\* ---------------------------------------------------------------- import
\* A CSV file is [name, rows]; a row is
\*   [is_film, film, zaal, is_kind, is_3d, aantal, bedrag]
\* with film the title detected in "Naam van variant" (0: none), zaal the
\* detected zaal ("1", "2" or 0: none) and bedrag in mills.
FilmRows(rows) == {i \in 1..Len(rows) : rows[i].is_film}

RECURSIVE SumRows(_, _, _, _)
SumRows(rows, idx, want_kind, field) ==
  IF idx = {} THEN 0
  ELSE LET i == CHOOSE x \in idx : TRUE
       IN  (IF rows[i].is_kind = want_kind THEN rows[i][field] ELSE 0)
           + SumRows(rows, idx \ {i}, want_kind, field)

\* df.groupby(["Film", "Zaal"]).agg(...): one record per group
GroupOf(rows, film, zaal) ==
  LET idx == {i \in FilmRows(rows) : rows[i].film = film /\ rows[i].zaal = zaal}
  IN  [Film |-> film, Zaal |-> zaal,
       AantalVolw |-> SumRows(rows, idx, FALSE, "aantal"),
       AantalKind |-> SumRows(rows, idx, TRUE, "aantal"),
       BedragVolw |-> SumRows(rows, idx, FALSE, "bedrag"),
       BedragKind |-> SumRows(rows, idx, TRUE, "bedrag"),
       Is3D |-> \E i \in idx : rows[i].is_3d]

GroupKeys(rows) == {<<rows[i].film, rows[i].zaal>> : i \in FilmRows(rows)}

\* groupby returns the groups sorted by (Film, Zaal)
RECURSIVE SortGroups(_, _)
SortGroups(rows, K) ==
  IF K = {} THEN <<>>
  ELSE LET g == CHOOSE x \in K : \A y \in K :
                   x[1] < y[1] \/ (x[1] = y[1] /\ x[2] <= y[2])
       IN  <<GroupOf(rows, g[1], g[2])>> \o SortGroups(rows, K \ {g})

Summary(rows) == SortGroups(rows, GroupKeys(rows))

NoPrice == [some |-> FALSE, num |-> 0, den |-> 1]
UnitPrice(bedrag, aantal) ==
  IF aantal > 0 THEN [some |-> TRUE, num |-> bedrag, den |-> aantal] ELSE NoPrice

\* the loop of open_csv over the summary rows from index i on;
\* acc = [films, zalen, daily_sales, tree]. film_ans: the user fills in the
\* "Nieuwe film" dialogs (FALSE: cancels); zaal_ans: the answer to
\* "Zaal ontbreekt" (0: empty).
RECURSIVE ImportLoop(_, _, _, _, _, _, _, _)
ImportLoop(summary, i, d, speelweek_id, source, film_ans, zaal_ans, acc) ==
  IF i > Len(summary) THEN acc
  ELSE
    LET row == summary[i]
        known == db_get_film_by_interne_titel(acc.films, row.Film)
        cf == db_create_film(acc.films, row.Film)
        film_id == IF known # 0 THEN known ELSE cf.id
        films1 == IF known # 0 THEN acc.films ELSE cf.films
        zaal == IF row.Zaal # 0 THEN row.Zaal ELSE zaal_ans
        gz == db_get_or_create_zaal(acc.zalen, zaal)
        gratis_volw == 0
        gratis_kind == 0
        totaal_aantal == row.AantalVolw + row.AantalKind + gratis_volw + gratis_kind
        totaal_bedrag == row.BedragVolw + row.BedragKind
        ds1 == db_upsert_daily_sales(acc.daily_sales, d, speelweek_id, film_id, gz.id,
                                     row.Is3D, row.AantalVolw, row.AantalKind,
                                     gratis_volw, gratis_kind,
                                     row.BedragVolw, row.BedragKind,
                                     totaal_aantal, totaal_bedrag, source)
        item == [film_titel |-> row.Film, zaal |-> zaal, is_3d |-> row.Is3D,
                 aantal_volw |-> row.AantalVolw, aantal_kind |-> row.AantalKind,
                 gratis_volw |-> gratis_volw, gratis_kind |-> gratis_kind,
                 bedrag_volw |-> Round2(row.BedragVolw, 10),
                 bedrag_kind |-> Round2(row.BedragKind, 10),
                 totaal_aantal |-> totaal_aantal,
                 totaal_bedrag |-> Round2(totaal_bedrag, 10),
                 unit_volw |-> UnitPrice(row.BedragVolw, row.AantalVolw),
                 unit_kind |-> UnitPrice(row.BedragKind, row.AantalKind),
                 meta |-> [datum |-> d, speelweek_id |-> speelweek_id,
                           film_id |-> film_id, zaal_id |-> gz.id,
                           is_3d |-> row.Is3D, source_file |-> source]]
    IN  IF row.Film = 0 \/ (known = 0 /\ ~film_ans)
        THEN ImportLoop(summary, i + 1, d, speelweek_id, source, film_ans, zaal_ans, acc)
        ELSE IF ~acc.db_ok
        THEN \* db_upsert_daily_sales raises: "DB fout", continue
             ImportLoop(summary, i + 1, d, speelweek_id, source, film_ans, zaal_ans,
                        [acc EXCEPT !.films = films1, !.zalen = gz.zalen])
        ELSE ImportLoop(summary, i + 1, d, speelweek_id, source, film_ans, zaal_ans,
                        [acc EXCEPT !.films = films1, !.zalen = gz.zalen,
                                    !.daily_sales = ds1, !.tree = Append(acc.tree, item)])

\* ---------------------------------------------------------------- actions
InitDb ==
  /\ settings = [k \in SettingKeys |->
                   CASE k = "week_start_weekday" -> DEFAULT_WEEK_START_WEEKDAY
                     [] k = "week_counter" -> NoSetting
                     [] k = "btw_rate" -> DEFAULT_BTW_RATE
                     [] k = "auteurs_rate" -> DEFAULT_AUTEURS_RATE
                     [] k = "ticket_counter_volw" -> DEFAULT_TICKET_COUNTER_VOLW
                     [] k = "ticket_counter_kind" -> DEFAULT_TICKET_COUNTER_KIND]
  /\ speelweek = <<>>
  /\ films = <<>>
  /\ zalen = <<>>
  /\ daily_sales = <<>>
  /\ ticket_ranges = <<>>
  /\ tree = <<>>
  /\ statements = <<>>
  /\ steps = 0
  /\ calls = <<>>

Init == InitDb /\ last = [op |-> "init"]

\* SumUpFilmApp.open_csv for date d; fault names the persistence call that
\* raises during this invocation ("upsert": every db_upsert_daily_sales)
open_csv(d, file, film_ans, zaal_ans, fault) ==
  LET gw == db_get_or_create_speelweek(settings, speelweek, d, fault)
      acc == ImportLoop(Summary(file.rows), 1, d, gw.id, file.name, film_ans, zaal_ans,
                        [films |-> films, zalen |-> zalen, daily_sales |-> daily_sales,
                         tree |-> <<>>, db_ok |-> fault # "upsert"])
  IN  IF gw.error
      THEN \* "Kon speelweek niet ophalen/aanmaken": return
           /\ settings' = gw.settings
           /\ speelweek' = gw.speelweek
           /\ last' = [op |-> "open_csv_failed", d |-> d, fault |-> fault]
           /\ UNCHANGED <<films, zalen, daily_sales, tree, ticket_ranges, statements>>
      ELSE /\ settings' = gw.settings
           /\ speelweek' = gw.speelweek
           /\ films' = acc.films
           /\ zalen' = acc.zalen
           /\ daily_sales' = acc.daily_sales
           /\ tree' = acc.tree
           /\ last' = [op |-> IF fault = "upsert" THEN "open_csv_unsaved" ELSE "open_csv",
                       d |-> d, file |-> file,
                       film_ans |-> film_ans, zaal_ans |-> zaal_ans,
                       speelweek_id |-> gw.id, weeknummer |-> gw.weeknummer,
                       created |-> gw.created]
           /\ UNCHANGED <<ticket_ranges, statements>>

NoAnswer == -1
EditColumns == {"Aantal volwassenen", "Aantal kinderen", "Gratis volwassenen", "Gratis kinderen"}

\* variant: the edited count is written, the totals of the row are kept
EditedItem_stale_total(it, col_name, new_aantal, unit) ==
  CASE col_name = "Aantal volwassenen" -> [it EXCEPT !.aantal_volw = new_aantal]
    [] col_name = "Aantal kinderen" -> [it EXCEPT !.aantal_kind = new_aantal]
    [] col_name = "Gratis volwassenen" -> [it EXCEPT !.gratis_volw = new_aantal]
    [] OTHER -> [it EXCEPT !.gratis_kind = new_aantal]

\* the values of a row of the import table after the edit of column col_name
\* to new_aantal; unit is the unit price used for a paid column
EditedItem(it, col_name, new_aantal, unit) ==
  LET new_bedrag == IF unit.some /\ unit.num # 0
                    THEN Round2(unit.num * new_aantal, unit.den * 10) ELSE 0
      v1 == CASE col_name = "Aantal volwassenen" ->
                   [it EXCEPT !.aantal_volw = new_aantal, !.bedrag_volw = new_bedrag,
                              !.unit_volw = unit]
              [] col_name = "Aantal kinderen" ->
                   [it EXCEPT !.aantal_kind = new_aantal, !.bedrag_kind = new_bedrag,
                              !.unit_kind = unit]
              [] col_name = "Gratis volwassenen" -> [it EXCEPT !.gratis_volw = new_aantal]
              [] OTHER -> [it EXCEPT !.gratis_kind = new_aantal]
  IN  [v1 EXCEPT !.totaal_aantal = v1.aantal_volw + v1.aantal_kind
                                   + v1.gratis_volw + v1.gratis_kind,
                 !.totaal_bedrag = v1.bedrag_volw + v1.bedrag_kind]

\* SumUpFilmApp._finish_edit_import: cell (item, col_name) of the import table
\* is set to new_aantal; price_ans answers "Eenheidsprijs nodig" (NoAnswer:
\* the dialog is cancelled)
_finish_edit_import(item, col_name, new_aantal, price_ans, fault) ==
  LET it == tree[item]
      paid == col_name \in {"Aantal volwassenen", "Aantal kinderen"}
      stored == IF col_name = "Aantal volwassenen" THEN it.unit_volw ELSE it.unit_kind
      ask == paid /\ ~stored.some /\ new_aantal > 0
      unit == IF ask THEN [some |-> TRUE, num |-> price_ans, den |-> 1]
              ELSE IF paid THEN stored ELSE NoPrice
      v == EditedItem(it, col_name, new_aantal, unit)
      meta == it.meta
  IN  /\ item \in 1..Len(tree)
      /\ new_aantal >= 0
      /\ ask => price_ans # NoAnswer
      /\ ~ask => price_ans = NoAnswer
      /\ tree' = [tree EXCEPT ![item] = v]
      /\ daily_sales' = IF fault = "upsert" THEN daily_sales
                        ELSE db_upsert_daily_sales(daily_sales, meta.datum, meta.speelweek_id,
                            meta.film_id, meta.zaal_id, meta.is_3d,
                            v.aantal_volw, v.aantal_kind, v.gratis_volw, v.gratis_kind,
                            v.bedrag_volw * 10, v.bedrag_kind * 10,
                            v.totaal_aantal, v.totaal_bedrag * 10, meta.source_file)
      /\ last' = [op |-> IF fault = "upsert" THEN "edit_import_unsaved" ELSE "edit_import",
                  item |-> item, col_name |-> col_name, new_aantal |-> new_aantal]
      /\ UNCHANGED <<settings, speelweek, films, zalen, ticket_ranges, statements>>

\* fname = "BO {weeknr_} {distributeur_} {film_title_}.pdf" of combination c
\* in the chosen folder: the week number and the film, each film having one
\* distributor and title
out_path(sw, fl, c) == <<sw[c[1]].weeknummer, fl[c[2]]>>

\* SumUpFilmApp.export_borderels_pdf_bo1 over [from_date, to_date]
export_borderels_pdf_bo1(from_date, to_date) ==
  LET btw == db_get_float_setting(settings, "btw_rate", DEFAULT_BTW_RATE)
      aut == db_get_float_setting(btw.settings, "auteurs_rate", DEFAULT_AUTEURS_RATE)
      combos == db_fetch_borderel_combos(speelweek, zalen, films, daily_sales,
                                         from_date, to_date)
      acc == ExportLoop(combos, 1, speelweek, zalen, daily_sales, btw.value, aut.value,
                        [settings |-> aut.settings, ticket_ranges |-> ticket_ranges,
                         statements |-> <<>>])
  IN  /\ from_date <= to_date
      /\ settings' = acc.settings
      /\ ticket_ranges' = acc.ticket_ranges
      /\ statements' = acc.statements
      /\ last' = [op |-> "export", from_date |-> from_date, to_date |-> to_date,
                  ok |-> Len(acc.statements),
                  files |-> {out_path(speelweek, films,
                                      <<acc.statements[i].speelweek_id,
                                        acc.statements[i].film_id,
                                        acc.statements[i].zaal_id>>) :
                               i \in 1..Len(acc.statements)}]
      /\ UNCHANGED <<speelweek, films, zalen, daily_sales, tree>>

\* SumUpFilmApp.save_settings; a week counter or ticket start number below 1
\* and a rate below 0 stand for every rejected text
save_settings(ws, wc, btw_rate, aut_rate, tv, tkid) ==
  LET s1 == db_set_setting(settings, "week_start_weekday", ws)
      s2 == db_set_setting(s1, "week_counter", wc)
      s3 == db_set_setting(s2, "btw_rate", btw_rate)
      s4 == db_set_setting(s3, "auteurs_rate", aut_rate)
      s5 == db_set_setting(s4, "ticket_counter_volw", tv)
      s6 == db_set_setting(s5, "ticket_counter_kind", tkid)
  IN  /\ settings' = IF wc < 1 THEN s1
                     ELSE IF btw_rate < 0 \/ aut_rate < 0 THEN s2
                     ELSE IF tv < 1 \/ tkid < 1 THEN s2
                     ELSE s6
      /\ last' = [op |-> "save_settings",
                  saved |-> wc >= 1 /\ btw_rate >= 0 /\ aut_rate >= 0 /\ tv >= 1 /\ tkid >= 1]
      /\ UNCHANGED <<speelweek, films, zalen, daily_sales, ticket_ranges, tree, statements>>

\* the speelweek ids shown in the history table (refresh_history)
HistSpeelweekIds == {daily_sales[k].speelweek_id : k \in DOMAIN daily_sales}

\* SumUpFilmApp._finish_edit_weeknr; a number below 1 stands for every
\* rejected text (int() raising ends in the same except branch)
_finish_edit_weeknr(speelweek_id, new_weeknr) ==
  /\ speelweek_id \in HistSpeelweekIds
  /\ speelweek' = IF new_weeknr < 1 THEN speelweek
                  ELSE db_update_speelweek_weeknummer(speelweek, speelweek_id, new_weeknr)
  /\ last' = [op |-> IF new_weeknr < 1 THEN "edit_weeknr_rejected" ELSE "edit_weeknr",
              speelweek_id |-> speelweek_id, new_weeknr |-> new_weeknr]
  /\ UNCHANGED <<settings, films, zalen, daily_sales, ticket_ranges, tree, statements>>

\* --------------------------------------------------------- specification
\* One step of the program: the user triggers one handler with inputs drawn
\* from the sets of in (a record of input sets), at most in.max_steps times.
OpenCsv(in) ==
  \E d \in in.dates, file \in in.files, film_ans \in in.film_ans, zaal_ans \in in.zaal_ans,
     fault \in in.import_faults :
    /\ steps < in.max_steps
    /\ steps' = steps + 1
    /\ open_csv(d, file, film_ans, zaal_ans, fault)
    /\ UNCHANGED calls

FinishEditImport(in) ==
  \E item \in in.items, col_name \in in.edit_cols, new_aantal \in in.edit_qty,
     price_ans \in {NoAnswer} \cup in.prices, fault \in in.edit_faults :
    /\ steps < in.max_steps
    /\ steps' = steps + 1
    /\ _finish_edit_import(item, col_name, new_aantal, price_ans, fault)
    /\ UNCHANGED calls

ExportBorderels(in) ==
  \E r \in in.ranges :
    /\ steps < in.max_steps
    /\ steps' = steps + 1
    /\ export_borderels_pdf_bo1(r[1], r[2])
    /\ UNCHANGED calls

SaveSettings(in) ==
  \E ws \in in.weekdays, wc \in in.week_counters, btw_rate \in in.btw_rates,
     aut_rate \in in.aut_rates, tv \in in.ticket_volw, tkid \in in.ticket_kind :
    /\ steps < in.max_steps
    /\ steps' = steps + 1
    /\ save_settings(ws, wc, btw_rate, aut_rate, tv, tkid)
    /\ UNCHANGED calls

FinishEditWeeknr(in) ==
  \E speelweek_id \in HistSpeelweekIds, new_weeknr \in in.weeknrs :
    /\ steps < in.max_steps
    /\ steps' = steps + 1
    /\ _finish_edit_weeknr(speelweek_id, new_weeknr)
    /\ UNCHANGED calls

\* a CSV line of film 1
CsvRow(zaal, is_kind, is_3d, aantal, bedrag) ==
  [is_film |-> TRUE, film |-> 1, zaal |-> zaal, is_kind |-> is_kind, is_3d |-> is_3d,
   aantal |-> aantal, bedrag |-> bedrag]

\* ---- ticket numbering: one date in each of the weeks 0..MaxWeek, film 1 in
\* zaal 1, files with one adult and one child line
TicketFiles ==
  {[name |-> 1, rows |-> <<CsvRow(1, FALSE, FALSE, a, PriceMills),
                           CsvRow(1, TRUE, FALSE, c, PriceMills)>>] :
      a \in 0..MaxQty, c \in 0..MaxQty}

TicketIn ==
  [dates |-> {7 * w + 1 : w \in 0..MaxWeek},
   files |-> TicketFiles, film_ans |-> {TRUE}, zaal_ans |-> {0},
   items |-> {1}, edit_cols |-> EditColumns, edit_qty |-> 0..MaxQty,
   prices |-> {PriceMills},
   ranges |-> {<<7 * w + 1, 7 * w + 1>> : w \in 0..MaxWeek} \cup {<<0, 7 * MaxWeek + 1>>},
   weekdays |-> {DEFAULT_WEEK_START_WEEKDAY}, week_counters |-> {1},
   btw_rates |-> {DEFAULT_BTW_RATE}, aut_rates |-> {DEFAULT_AUTEURS_RATE},
   ticket_volw |-> {TicketStart}, ticket_kind |-> {1},
   weeknrs |-> {MaxWeeknr},
   import_faults |-> {"none"}, edit_faults |-> {"none"},
   max_steps |-> MaxSteps]

Next ==
  \/ OpenCsv(TicketIn)
  \/ FinishEditImport(TicketIn)
  \/ ExportBorderels(TicketIn)
  \/ SaveSettings(TicketIn)
  \/ FinishEditWeeknr(TicketIn)

Spec == Init /\ [][Next]_vars

\* ---- week numbering: two dates of week 0 and one of week 1, the start
\* weekday and the week counter change through the settings
ExtraDate == 3
WeekCounterIn == 3

WeekIn ==
  [dates |-> {1, ExtraDate, 8},
   files |-> {[name |-> 1, rows |-> <<CsvRow(1, FALSE, FALSE, 1, PriceMills)>>]},
   film_ans |-> {TRUE}, zaal_ans |-> {0},
   items |-> {1}, edit_cols |-> {"Gratis volwassenen"}, edit_qty |-> {1},
   prices |-> {},
   ranges |-> {<<0, 8>>},
   weekdays |-> {DEFAULT_WEEK_START_WEEKDAY, DEFAULT_WEEK_START_WEEKDAY + 1},
   week_counters |-> {0, WeekCounterIn},
   btw_rates |-> {DEFAULT_BTW_RATE}, aut_rates |-> {DEFAULT_AUTEURS_RATE},
   ticket_volw |-> {1}, ticket_kind |-> {1},
   weeknrs |-> {0, MaxWeeknr},
   import_faults |-> {"none"}, edit_faults |-> {"none"},
   max_steps |-> MaxSteps]

NextWeeks ==
  \/ OpenCsv(WeekIn)
  \/ FinishEditImport(WeekIn)
  \/ ExportBorderels(WeekIn)
  \/ SaveSettings(WeekIn)
  \/ FinishEditWeeknr(WeekIn)

SpecWeeks == Init /\ [][NextWeeks]_vars

\* ---- sales and statements: two dates of one week; files with an adult and
\* a child line of zaal 1, and a file with a line without zaal and a line of
\* zaal 1 (the user is asked for the zaal of the first)
SalesSteps == 3
OtherBtwRate == 600
SubCentMills == 4

SalesFiles ==
  TicketFiles \cup
  {[name |-> 2, rows |-> <<CsvRow(0, FALSE, FALSE, 1, PriceMills),
                           CsvRow(1, FALSE, FALSE, MaxQty + 1, 0)>>],
   [name |-> 3, rows |-> <<CsvRow(1, FALSE, FALSE, -1, PriceMills)>>],
   [name |-> 4, rows |-> <<CsvRow(1, FALSE, FALSE, 1, SubCentMills),
                           CsvRow(1, TRUE, FALSE, 1, SubCentMills)>>]}

SalesIn ==
  [dates |-> {1, ExtraDate},
   files |-> SalesFiles, film_ans |-> {TRUE}, zaal_ans |-> {0, 1},
   items |-> {1, 2}, edit_cols |-> EditColumns, edit_qty |-> 0..MaxQty,
   prices |-> {PriceMills},
   ranges |-> {<<1, ExtraDate>>},
   weekdays |-> {DEFAULT_WEEK_START_WEEKDAY}, week_counters |-> {1},
   btw_rates |-> {OtherBtwRate, -1}, aut_rates |-> {DEFAULT_AUTEURS_RATE},
   ticket_volw |-> {1}, ticket_kind |-> {1},
   weeknrs |-> {MaxWeeknr},
   import_faults |-> {"none"}, edit_faults |-> {"none"},
   max_steps |-> SalesSteps]

NextSales ==
  \/ OpenCsv(SalesIn)
  \/ FinishEditImport(SalesIn)
  \/ ExportBorderels(SalesIn)
  \/ SaveSettings(SalesIn)
  \/ FinishEditWeeknr(SalesIn)

SpecSales == Init /\ [][NextSales]_vars

\* ---- speelweek_range on its own: every date 0..MaxDay, every start weekday
MaxDay == 20

InitRange ==
  /\ InitDb
  /\ \E d \in 0..MaxDay, w \in Weekdays : last = [op |-> "range_in", d |-> d, w |-> w]

ApplyRange ==
  /\ last.op = "range_in"
  /\ last' = [op |-> "range_out", d |-> last.d, w |-> last.w,
              start |-> speelweek_range(last.d, last.w).start,
              end |-> speelweek_range(last.d, last.w).end]
  /\ UNCHANGED <<settings, speelweek, films, zalen, daily_sales, ticket_ranges,
                 tree, statements, steps, calls>>

SpecRange == InitRange /\ [][ApplyRange]_vars

\* ------------------------------------------------ stored configuration
\* SumUpFilmApp._load_settings_into_ui (called by __init__): the settings
\* after the reads; week_counter is read with db_get_setting(...) or "1" and
\* is not written
_load_settings_into_ui(st) ==
  LET ws   == db_get_week_start_weekday(st)
      btw  == db_get_float_setting(ws.settings, "btw_rate", DEFAULT_BTW_RATE)
      aut  == db_get_float_setting(btw.settings, "auteurs_rate", DEFAULT_AUTEURS_RATE)
      tv   == db_get_int_setting(aut.settings, "ticket_counter_volw",
                                 DEFAULT_TICKET_COUNTER_VOLW)
      tkid == db_get_int_setting(tv.settings, "ticket_counter_kind",
                                 DEFAULT_TICKET_COUNTER_KIND)
  IN  tkid.settings

\* a weekday number outside 0..6
BadWeekday == 7

\* the settings table the program finds at start: a key is missing, holds a
\* text that is no number, or holds a number
StoredSettings ==
  {st \in [SettingKeys -> {NoSetting, InvalidSetting, BadWeekday,
                           DEFAULT_WEEK_START_WEEKDAY + 1, WeekCounterIn, OtherBtwRate,
                           DEFAULT_AUTEURS_RATE, TicketStart}] :
     /\ st["week_start_weekday"] \in {NoSetting, InvalidSetting, BadWeekday,
                                       DEFAULT_WEEK_START_WEEKDAY + 1}
     /\ st["week_counter"] \in {NoSetting, InvalidSetting, WeekCounterIn}
     /\ st["btw_rate"] \in {NoSetting, InvalidSetting, OtherBtwRate}
     /\ st["auteurs_rate"] \in {InvalidSetting, DEFAULT_AUTEURS_RATE}
     /\ st["ticket_counter_volw"] \in {NoSetting, InvalidSetting, TicketStart}
     /\ st["ticket_counter_kind"] \in {NoSetting, TicketStart}}

\* the database before the window is opened
InitConfig ==
  /\ settings \in StoredSettings
  /\ speelweek = <<>>
  /\ films = <<>>
  /\ zalen = <<>>
  /\ daily_sales = <<>>
  /\ ticket_ranges = <<>>
  /\ tree = <<>>
  /\ statements = <<>>
  /\ steps = 0
  /\ calls = <<>>
  /\ last = [op |-> "db"]

\* SumUpFilmApp.__init__
LoadSettings ==
  /\ last.op = "db"
  /\ settings' = _load_settings_into_ui(settings)
  /\ last' = [op |-> "init"]
  /\ UNCHANGED <<speelweek, films, zalen, daily_sales, ticket_ranges, tree, statements,
                 steps, calls>>

ConfigSteps == 2

ConfigIn ==
  [dates |-> {1},
   files |-> {[name |-> 1, rows |-> <<CsvRow(1, FALSE, FALSE, 1, PriceMills)>>]},
   film_ans |-> {TRUE}, zaal_ans |-> {0},
   items |-> {1}, edit_cols |-> {"Gratis volwassenen"}, edit_qty |-> {1},
   prices |-> {},
   ranges |-> {<<1, 1>>},
   weekdays |-> {DEFAULT_WEEK_START_WEEKDAY}, week_counters |-> {0, WeekCounterIn},
   btw_rates |-> {DEFAULT_BTW_RATE}, aut_rates |-> {DEFAULT_AUTEURS_RATE},
   ticket_volw |-> {1}, ticket_kind |-> {1},
   weeknrs |-> {MaxWeeknr},
   import_faults |-> {"none"}, edit_faults |-> {"none"},
   max_steps |-> ConfigSteps]

\* the handlers are reachable once the window exists
ConfigOpenCsv == last.op # "db" /\ OpenCsv(ConfigIn)
ConfigExportBorderels == last.op # "db" /\ ExportBorderels(ConfigIn)
ConfigSaveSettings == last.op # "db" /\ SaveSettings(ConfigIn)

NextConfig ==
  \/ LoadSettings
  \/ ConfigOpenCsv
  \/ ConfigExportBorderels
  \/ ConfigSaveSettings

SpecConfig == InitConfig /\ [][NextConfig]_vars

\* ----------------------------------------------------- storage failures
\* The handlers with a persistence call that raises (connection lost).
FaultSteps == 3

FaultIn ==
  [dates |-> {1, ExtraDate, 8},
   files |-> {[name |-> 1, rows |-> <<CsvRow(1, FALSE, FALSE, a, PriceMills)>>] :
                a \in 1..(MaxQty + 1)},
   film_ans |-> {TRUE}, zaal_ans |-> {0},
   items |-> {1}, edit_cols |-> {"Aantal volwassenen", "Gratis volwassenen"},
   edit_qty |-> 0..MaxQty,
   prices |-> {PriceMills},
   ranges |-> {<<1, 8>>},
   weekdays |-> {DEFAULT_WEEK_START_WEEKDAY}, week_counters |-> {WeekCounterIn},
   btw_rates |-> {DEFAULT_BTW_RATE}, aut_rates |-> {DEFAULT_AUTEURS_RATE},
   ticket_volw |-> {1}, ticket_kind |-> {1},
   weeknrs |-> {MaxWeeknr},
   import_faults |-> {"none", "counter_read", "insert", "counter_write", "upsert"},
   edit_faults |-> {"none", "upsert"},
   max_steps |-> FaultSteps]

NextFaults ==
  \/ OpenCsv(FaultIn)
  \/ FinishEditImport(FaultIn)
  \/ ExportBorderels(FaultIn)
  \/ SaveSettings(FaultIn)
  \/ FinishEditWeeknr(FaultIn)

SpecFaults == Init /\ [][NextFaults]_vars

\* ---------------------------------------------------- concurrent calls
\* Two sessions (two running instances of the program) on one database.
\* Every SQL statement is one step; each helper opens its own connection
\* and nothing is locked between the statements of a call.
Sessions == {1, 2}

\* the unique keys of the tables, unique(start_date, end_date) of speelweek
\* and unique(speelweek_id, film_id, room_id) of ticket_ranges: an INSERT of
\* a second row with the key raises
DuplicateSpeelweek(sw, start, end) ==
  \E i \in 1..Len(sw) : sw[i].start_datum = start /\ sw[i].eind_datum = end

DuplicateTicketRange(tr, key) == key \in DOMAIN tr

CallsEnded == calls # <<>> /\ \A p \in Sessions : calls[p].pc \in {"done", "failed"}

\* both sessions import a file for a date of the same week, which has no
\* speelweek row yet, and reach db_get_or_create_speelweek
BeginSpeelweekCalls(dates) ==
  \E d1 \in dates, d2 \in dates :
    LET ws == db_get_week_start_weekday(settings).value
        r1 == speelweek_range(d1, ws)
        r2 == speelweek_range(d2, ws)
    IN  /\ calls = <<>>
        /\ r1 = r2
        /\ SpeelweekIdFor(speelweek, r1.start, r1.end) = 0
        /\ calls' = [p \in Sessions |->
                       [fn |-> "db_get_or_create_speelweek", pc |-> "week_start",
                        d |-> IF p = 1 THEN d1 ELSE d2,
                        start |-> 0, end |-> 0, id |-> 0, weeknummer |-> 0]]
        /\ last' = [op |-> "speelweek_calls", start |-> r1.start, end |-> r1.end,
                    week_counter |-> IF settings["week_counter"] = NoSetting
                                     THEN DEFAULT_WEEK_COUNTER
                                     ELSE settings["week_counter"]]
        /\ UNCHANGED <<settings, speelweek, films, zalen, daily_sales, ticket_ranges,
                       tree, statements, steps>>

\* both sessions import a file, for dates of two different weeks without a
\* speelweek row, and reach db_get_or_create_speelweek
BeginSpeelweekCallsApart(dates) ==
  \E d1 \in dates, d2 \in dates :
    LET ws == db_get_week_start_weekday(settings).value
        r1 == speelweek_range(d1, ws)
        r2 == speelweek_range(d2, ws)
    IN  /\ calls = <<>>
        /\ r1 # r2
        /\ SpeelweekIdFor(speelweek, r1.start, r1.end) = 0
        /\ SpeelweekIdFor(speelweek, r2.start, r2.end) = 0
        /\ calls' = [p \in Sessions |->
                       [fn |-> "db_get_or_create_speelweek", pc |-> "week_start",
                        d |-> IF p = 1 THEN d1 ELSE d2,
                        start |-> 0, end |-> 0, id |-> 0, weeknummer |-> 0]]
        /\ last' = [op |-> "speelweek_calls_apart",
                    week_counter |-> IF settings["week_counter"] = NoSetting
                                     THEN DEFAULT_WEEK_COUNTER
                                     ELSE settings["week_counter"]]
        /\ UNCHANGED <<settings, speelweek, films, zalen, daily_sales, ticket_ranges,
                       tree, statements, steps>>

\* the next statement of the db_get_or_create_speelweek call of session p
SpeelweekCallStep(p) ==
  LET c == calls[p]
      ws == db_get_week_start_weekday(settings)
      rng == speelweek_range(c.d, ws.value)
      id == SpeelweekIdFor(speelweek, c.start, c.end)
      row == [weeknummer |-> c.weeknummer, start_datum |-> c.start, eind_datum |-> c.end]
  IN  /\ calls # <<>>
      /\ c.fn = "db_get_or_create_speelweek"
      /\ CASE c.pc = "week_start" ->
                /\ settings' = ws.settings
                /\ calls' = [calls EXCEPT ![p] = [c EXCEPT !.pc = "select",
                                                           !.start = rng.start,
                                                           !.end = rng.end]]
                /\ UNCHANGED speelweek
           [] c.pc = "select" ->
                /\ calls' = [calls EXCEPT ![p] =
                               IF id # 0
                               THEN [c EXCEPT !.pc = "done", !.id = id,
                                              !.weeknummer = speelweek[id].weeknummer]
                               ELSE [c EXCEPT !.pc = "counter_read"]]
                /\ UNCHANGED <<settings, speelweek>>
           [] c.pc = "counter_read" ->
                /\ calls' = [calls EXCEPT ![p] =
                               IF settings["week_counter"] = NoSetting
                               THEN [c EXCEPT !.pc = "counter_init",
                                              !.weeknummer = DEFAULT_WEEK_COUNTER]
                               ELSE [c EXCEPT !.pc = "insert",
                                              !.weeknummer = settings["week_counter"]]]
                /\ UNCHANGED <<settings, speelweek>>
           [] c.pc = "counter_init" ->
                /\ settings' = db_set_setting(settings, "week_counter", DEFAULT_WEEK_COUNTER)
                /\ calls' = [calls EXCEPT ![p] = [c EXCEPT !.pc = "insert"]]
                /\ UNCHANGED speelweek
           [] c.pc = "insert" ->
                IF DuplicateSpeelweek(speelweek, c.start, c.end)
                THEN /\ calls' = [calls EXCEPT ![p] = [c EXCEPT !.pc = "failed"]]
                     /\ UNCHANGED <<settings, speelweek>>
                ELSE /\ speelweek' = Append(speelweek, row)
                     /\ calls' = [calls EXCEPT ![p] = [c EXCEPT !.pc = "counter_write",
                                                                !.id = Len(speelweek) + 1]]
                     /\ UNCHANGED settings
           [] c.pc = "counter_write" ->
                /\ settings' = db_set_setting(settings, "week_counter",
                                               NextWeekCounter(c.weeknummer))
                /\ calls' = [calls EXCEPT ![p] = [c EXCEPT !.pc = "done"]]
                /\ UNCHANGED speelweek
           [] OTHER -> FALSE
      /\ UNCHANGED <<films, zalen, daily_sales, ticket_ranges, tree, statements, last,
                     steps>>

\* both sessions export the statement of the same (speelweek, film, zaal),
\* which has rows and no range yet, and reach db_get_or_create_ticket_range
BeginTicketRangeCalls ==
  \E x \in DOMAIN daily_sales :
    LET key == <<daily_sales[x].speelweek_id, x[2], x[3]>>
    IN  /\ calls = <<>>
        /\ ~RangeExists(ticket_ranges, key)
        /\ calls' = [p \in Sessions |->
                       [fn |-> "db_get_or_create_ticket_range", pc |-> "select",
                        key |-> key, has_prev |-> FALSE, prev |-> key,
                        begin_volw |-> 0, begin_kind |-> 0]]
        /\ last' = [op |-> "ticket_range_calls", key |-> key]
        /\ UNCHANGED <<settings, speelweek, films, zalen, daily_sales, ticket_ranges,
                       tree, statements, steps>>

\* the next statement of the db_get_or_create_ticket_range call of session p
TicketRangeCallStep(p) ==
  LET c == calls[p]
      key == c.key
      start_datum == speelweek[key[1]].start_datum
      has_prev == PrevRangeKeys(speelweek, ticket_ranges, key[2], key[3], start_datum) # {}
      prev == PrevRangeKey(speelweek, ticket_ranges, key[2], key[3], start_datum)
      qty == db_sum_paid_qty_for_speelweek(daily_sales, c.prev[1], key[2], key[3])
      cv == db_get_int_setting(settings, "ticket_counter_volw", DEFAULT_TICKET_COUNTER_VOLW)
      ck == db_get_int_setting(cv.settings, "ticket_counter_kind",
                               DEFAULT_TICKET_COUNTER_KIND)
      gv == db_get_int_setting(settings, "ticket_counter_volw", 1)
      gk == db_get_int_setting(settings, "ticket_counter_kind", 1)
  IN  /\ calls # <<>>
      /\ c.fn = "db_get_or_create_ticket_range"
      /\ CASE c.pc = "select" ->
                /\ calls' = [calls EXCEPT ![p] =
                               IF RangeExists(ticket_ranges, key)
                               THEN [c EXCEPT !.pc = "done",
                                              !.begin_volw = ticket_ranges[key].begin_volw,
                                              !.begin_kind = ticket_ranges[key].begin_kind]
                               ELSE [c EXCEPT !.pc = "prev"]]
                /\ UNCHANGED <<settings, ticket_ranges>>
           [] c.pc = "prev" ->
                /\ calls' = [calls EXCEPT ![p] =
                               IF has_prev
                               THEN [c EXCEPT !.pc = "sum", !.has_prev = TRUE, !.prev = prev,
                                              !.begin_volw = ticket_ranges[prev].begin_volw,
                                              !.begin_kind = ticket_ranges[prev].begin_kind]
                               ELSE [c EXCEPT !.pc = "counters"]]
                /\ UNCHANGED <<settings, ticket_ranges>>
           [] c.pc = "sum" ->
                /\ calls' = [calls EXCEPT ![p] =
                               [c EXCEPT !.pc = "insert",
                                         !.begin_volw = calc_ticket_end(c.begin_volw, qty.volw) + 1,
                                         !.begin_kind = calc_ticket_end(c.begin_kind, qty.kind) + 1]]
                /\ UNCHANGED <<settings, ticket_ranges>>
           [] c.pc = "counters" ->
                /\ settings' = ck.settings
                /\ calls' = [calls EXCEPT ![p] = [c EXCEPT !.pc = "insert",
                                                           !.begin_volw = cv.value,
                                                           !.begin_kind = ck.value]]
                /\ UNCHANGED ticket_ranges
           [] c.pc = "insert" ->
                IF DuplicateTicketRange(ticket_ranges, key)
                THEN /\ calls' = [calls EXCEPT ![p] = [c EXCEPT !.pc = "failed"]]
                     /\ UNCHANGED <<settings, ticket_ranges>>
                ELSE /\ ticket_ranges' = _insert_ticket_range(ticket_ranges, key[1], key[2],
                                              key[3], c.begin_volw, c.begin_kind)
                     /\ calls' = [calls EXCEPT ![p] = [c EXCEPT !.pc = "counter_volw"]]
                     /\ UNCHANGED settings
           [] c.pc = "counter_volw" ->
                /\ settings' = db_set_setting(gv.settings, "ticket_counter_volw",
                                               MaxCounter(gv.value, c.begin_volw))
                /\ calls' = [calls EXCEPT ![p] = [c EXCEPT !.pc = "counter_kind"]]
                /\ UNCHANGED ticket_ranges
           [] c.pc = "counter_kind" ->
                /\ settings' = db_set_setting(gk.settings, "ticket_counter_kind",
                                               MaxCounter(gk.value, c.begin_kind))
                /\ calls' = [calls EXCEPT ![p] = [c EXCEPT !.pc = "done"]]
                /\ UNCHANGED ticket_ranges
           [] OTHER -> FALSE
      /\ UNCHANGED <<speelweek, films, zalen, daily_sales, tree, statements, last, steps>>

RaceSteps == 2

RaceIn ==
  [dates |-> {1, 8},
   files |-> {[name |-> 1, rows |-> <<CsvRow(1, FALSE, FALSE, a, PriceMills)>>] :
                a \in 0..MaxQty},
   film_ans |-> {TRUE}, zaal_ans |-> {0},
   items |-> {1}, edit_cols |-> {"Gratis volwassenen"}, edit_qty |-> {1},
   prices |-> {},
   ranges |-> {<<1, 1>>, <<1, 8>>},
   weekdays |-> {DEFAULT_WEEK_START_WEEKDAY}, week_counters |-> {WeekCounterIn},
   btw_rates |-> {DEFAULT_BTW_RATE}, aut_rates |-> {DEFAULT_AUTEURS_RATE},
   ticket_volw |-> {1}, ticket_kind |-> {1},
   weeknrs |-> {MaxWeeknr},
   import_faults |-> {"none"}, edit_faults |-> {"none"},
   max_steps |-> RaceSteps]

\* one session works alone until the two sessions make their calls
RaceOpenCsv == calls = <<>> /\ OpenCsv(RaceIn)
RaceExportBorderels == calls = <<>> /\ ExportBorderels(RaceIn)
RaceSpeelweekCalls == BeginSpeelweekCalls({1, ExtraDate, 8})
RaceSpeelweekCallsApart == BeginSpeelweekCallsApart({1, 8, 15})
RaceSpeelweekStep == \E p \in Sessions : SpeelweekCallStep(p)
RaceTicketRangeStep == \E p \in Sessions : TicketRangeCallStep(p)

NextRace ==
  \/ RaceOpenCsv
  \/ RaceExportBorderels
  \/ RaceSpeelweekCalls
  \/ RaceSpeelweekCallsApart
  \/ RaceSpeelweekStep
  \/ BeginTicketRangeCalls
  \/ RaceTicketRangeStep

SpecRace == Init /\ [][NextRace]_vars

\* ------------------------------------------------------------ properties
StartOf(speelweek_id) == speelweek[speelweek_id].start_datum

SameFilmZaal(a, b) == a[2] = b[2] /\ a[3] = b[3]

\* the paid quantities now stored for a (speelweek, film, zaal)
PaidVolw(k) ==
  SumField(daily_sales, {x \in DOMAIN daily_sales :
     daily_sales[x].speelweek_id = k[1] /\ x[2] = k[2] /\ x[3] = k[3]}, "aantal_volw")
PaidKind(k) ==
  SumField(daily_sales, {x \in DOMAIN daily_sales :
     daily_sales[x].speelweek_id = k[1] /\ x[2] = k[2] /\ x[3] = k[3]}, "aantal_kind")

\* the end number of a range for the quantity q, as the data model defines it
EndNo(b, q) == IF q > 0 THEN b + q - 1 ELSE b - 1

\* a is the latest allocated week before b for the same film + zaal
LatestBefore(tr, a, b) ==
  /\ SameFilmZaal(a, b)
  /\ StartOf(a[1]) < StartOf(b[1])
  /\ \A c \in DOMAIN tr :
       SameFilmZaal(c, b) /\ StartOf(c[1]) < StartOf(b[1]) => StartOf(c[1]) <= StartOf(a[1])

\* C1: in every reachable state, for two ranges A and B of the same film +
\* zaal where A is the latest allocated week before B, B begins right after
\* the end of A (computed from A's current paid quantity), for the adult and
\* for the child numbers.
C1_NeverRepeatOrSkip ==
  \A a \in DOMAIN ticket_ranges, b \in DOMAIN ticket_ranges :
    LatestBefore(ticket_ranges, a, b) =>
      /\ ticket_ranges[b].begin_volw = EndNo(ticket_ranges[a].begin_volw, PaidVolw(a)) + 1
      /\ ticket_ranges[b].begin_kind = EndNo(ticket_ranges[a].begin_kind, PaidKind(a)) + 1

\* C2: when a step creates the range of week B and the same film + zaal has a
\* range in an earlier week, the new begin is b + q when q > 0 and b when
\* q = 0, with b and q the begin and the paid quantity of the most recent
\* such week A; adult and child separately (b = 100, q = 37 gives 137).
C2_ContinuityAtAllocation ==
  [][\A k \in (DOMAIN ticket_ranges') \ (DOMAIN ticket_ranges) :
       \A a \in DOMAIN ticket_ranges' :
         LatestBefore(ticket_ranges', a, k) =>
           LET bv == ticket_ranges'[a].begin_volw
               bk == ticket_ranges'[a].begin_kind
               qv == PaidVolw(a)
               qk == PaidKind(a)
           IN  /\ qv > 0 => ticket_ranges'[k].begin_volw = bv + qv
               /\ qv = 0 => ticket_ranges'[k].begin_volw = bv
               /\ qk > 0 => ticket_ranges'[k].begin_kind = bk + qk
               /\ qk = 0 => ticket_ranges'[k].begin_kind = bk
               /\ calc_ticket_end(100, 37) + 1 = 137
               /\ calc_ticket_end(100, 0) + 1 = 100]_vars

\* a range that continues the range of an earlier, not adjacent week: adult
\* tickets were sold in that week, child tickets were not
C2_Witness ==
  /\ last.op = "export"
  /\ \E a \in DOMAIN ticket_ranges, b \in DOMAIN ticket_ranges :
       /\ LatestBefore(ticket_ranges, a, b)
       /\ StartOf(b[1]) > StartOf(a[1]) + 7
       /\ PaidVolw(a) > 0 /\ PaidKind(a) = 0
       /\ ticket_ranges[b].begin_volw = ticket_ranges[a].begin_volw + PaidVolw(a)
       /\ ticket_ranges[b].begin_kind = ticket_ranges[a].begin_kind

StmtKey(s) == <<s.speelweek_id, s.film_id, s.zaal_id>>

\* C3: a step never removes or changes an existing ticket range, and every
\* statement it generates for a key that had a range carries that range's
\* begin numbers.
C3_RangeImmutable ==
  [][/\ \A k \in DOMAIN ticket_ranges :
          k \in DOMAIN ticket_ranges' /\ ticket_ranges'[k] = ticket_ranges[k]
     /\ statements' # statements =>
          \A i \in 1..Len(statements') :
            LET s == statements'[i]
            IN  /\ StmtKey(s) \in DOMAIN ticket_ranges'
                /\ s.begin_volw = ticket_ranges'[StmtKey(s)].begin_volw
                /\ s.begin_kind = ticket_ranges'[StmtKey(s)].begin_kind]_vars

\* a statement generated again for a range allocated from the global adult
\* counter, after that counter was changed in the settings
C3_Witness ==
  /\ last.op = "export"
  /\ Len(statements) = 1
  /\ Cardinality(DOMAIN ticket_ranges) = 1
  /\ statements[1].begin_volw = DEFAULT_TICKET_COUNTER_VOLW
  /\ settings["ticket_counter_volw"] = TicketStart

\* a step of open_csv
ImportStep == steps' # steps /\ last'.op = "open_csv"

WeekStart == settings["week_start_weekday"]
WeekCounter == settings["week_counter"]

\* C4: a call of db_get_or_create_speelweek for a date whose bounds already
\* have a speelweek returns that row's id and week number, inserts no row
\* and leaves week_counter alone; so a second call for a date with the same
\* bounds returns what the first returned.
C4_WeekIdempotent ==
  [][ImportStep =>
       LET rng == speelweek_range(last'.d, WeekStart)
           hits == {i \in 1..Len(speelweek) : /\ speelweek[i].start_datum = rng.start
                                             /\ speelweek[i].eind_datum = rng.end}
       IN  /\ hits # {} =>
                /\ speelweek' = speelweek
                /\ WeekCounter' = WeekCounter
                /\ last'.speelweek_id \in hits
                /\ last'.weeknummer = speelweek[last'.speelweek_id].weeknummer
           /\ (last.op = "open_csv" /\ speelweek_range(last.d, WeekStart) = rng) =>
                /\ last'.speelweek_id = last.speelweek_id
                /\ last'.weeknummer = last.weeknummer
                /\ speelweek' = speelweek
                /\ WeekCounter' = WeekCounter]_vars

\* the second of two imports for different dates of the same speelweek
C4_Witness ==
  /\ last.op = "open_csv"
  /\ ~last.created
  /\ last.d = ExtraDate
  /\ Len(speelweek) = 1
  /\ speelweek[1].start_datum = 1
  /\ last.speelweek_id = 1
  /\ WeekCounter = 2

\* C5: a call that creates a week gives it the number k = week_counter (1
\* when unset) and leaves week_counter = k + 1, so successive creations get
\* k, k+1, ...; a call that finds its week consumes no number.
C5_SequentialWeekNumbers ==
  [][ImportStep =>
       LET k == IF WeekCounter = NoSetting THEN 1 ELSE WeekCounter
       IN  IF last'.created
           THEN /\ last'.weeknummer = k
                /\ Len(speelweek') = Len(speelweek) + 1
                /\ last'.speelweek_id = Len(speelweek')
                /\ speelweek'[Len(speelweek')].weeknummer = k
                /\ \A i \in 1..Len(speelweek) : speelweek'[i] = speelweek[i]
                /\ WeekCounter' = k + 1
                /\ (last.op = "open_csv" /\ last.created) =>
                      last'.weeknummer = last.weeknummer + 1
           ELSE /\ WeekCounter' = WeekCounter
                /\ speelweek' = speelweek]_vars

\* two weeks created one after the other from week_counter = WeekCounterIn
C5_Witness ==
  /\ last.op = "open_csv"
  /\ last.created
  /\ Len(speelweek) = 2
  /\ speelweek[1].weeknummer = WeekCounterIn
  /\ speelweek[2].weeknummer = WeekCounterIn + 1
  /\ WeekCounter = WeekCounterIn + 2

\* C6: speelweek_range(d, w) = (start, end) with start on weekday w,
\* start <= d < end, end = start + 7 and start = d - ((weekday(d) - w) mod 7):
\* no day after start up to d falls on weekday w.
C6_WeekBounds ==
  last.op = "range_out" =>
    /\ weekday(last.start) = last.w
    /\ last.start <= last.d /\ last.d < last.end
    /\ last.end = last.start + 7
    /\ \E m \in 0..6 : /\ (m - (weekday(last.d) - last.w)) % 7 = 0
                       /\ last.start = last.d - m
    /\ \A x \in (last.start + 1)..last.d : weekday(x) # last.w

\* a Friday with the week starting on Tuesday: the start is three days back
C6_Witness ==
  /\ last.op = "range_out"
  /\ weekday(last.d) = 4 /\ last.w = 1
  /\ last.start = last.d - 3

ItemKey(it) == <<it.meta.datum, it.meta.film_id, it.meta.zaal_id>>

C8_FinancialIdentity ==
  \A i \in 1..Len(statements) :
    LET s == statements[i]
        rows == {x \in DOMAIN daily_sales :
                   /\ daily_sales[x].speelweek_id = s.speelweek_id
                   /\ x[2] = s.film_id /\ x[3] = s.zaal_id}
    IN  /\ s.gross_total = s.volw_amt + s.kind_amt
        /\ s.btw_total = s.gross_total * s.btw_rate
        /\ s.netto_total = s.gross_total * RateScale - s.btw_total
        /\ s.auteurs_total = s.netto_total * s.auteurs_rate
        /\ s.verschil = s.netto_total * RateScale - s.auteurs_total
        /\ s.tickets_total = s.volw_qty + s.kind_qty
        /\ last.op = "export" =>
             /\ s.btw_rate = settings["btw_rate"]
             /\ s.auteurs_rate = settings["auteurs_rate"]
             /\ s.volw_qty = PaidVolw(StmtKey(s))
             /\ s.kind_qty = PaidKind(StmtKey(s))
             /\ s.volw_amt = SumField(daily_sales, rows, "bedrag_volw")
             /\ s.kind_amt = SumField(daily_sales, rows, "bedrag_kind")

\* a statement over two daily rows, with a VAT rate set in the settings
C8_Witness ==
  /\ last.op = "export"
  /\ Len(statements) = 1
  /\ Cardinality(DOMAIN daily_sales) = 2
  /\ statements[1].gross_total = 8
  /\ statements[1].tickets_total > 0
  /\ statements[1].btw_total > 0
  /\ statements[1].verschil > 0

\* C10: a statement's unit price is 0 when the week's paid quantity is 0 and
\* no unit price is a division by zero; right after an import a row's unit
\* price is defined exactly when its quantity is greater than 0.
C10_UnitPriceSafety ==
  /\ \A i \in 1..Len(statements) :
       LET s == statements[i]
       IN  /\ s.volw_qty = 0 => s.volw_price = ZeroPrice
           /\ s.kind_qty = 0 => s.kind_price = ZeroPrice
           /\ s.volw_price.den # 0 /\ s.kind_price.den # 0
           /\ s.volw_qty # 0 => s.volw_price = [num |-> s.volw_amt, den |-> s.volw_qty]
           /\ s.kind_qty # 0 => s.kind_price = [num |-> s.kind_amt, den |-> s.kind_qty]
  /\ last.op = "open_csv" =>
       \A i \in 1..Len(tree) :
         /\ tree[i].unit_volw.some <=> tree[i].aantal_volw > 0
         /\ tree[i].unit_kind.some <=> tree[i].aantal_kind > 0
         /\ tree[i].unit_volw.den # 0 /\ tree[i].unit_kind.den # 0

\* a statement of a week whose adult lines (1 and -1) sum to 0 tickets with
\* an adult amount above 0
C10_Witness ==
  /\ last.op = "export"
  /\ \E i \in 1..Len(statements) :
       /\ statements[i].volw_qty = 0
       /\ statements[i].volw_amt > 0
       /\ \E x \in DOMAIN daily_sales : daily_sales[x].aantal_volw < 0

\* a step of _finish_edit_import on one of the two free-ticket columns
FreeEditStep ==
  /\ steps' # steps
  /\ last'.op = "edit_import"
  /\ last'.col_name \in {"Gratis volwassenen", "Gratis kinderen"}

\* the fields of a daily row other than the free counts and totaal_aantal
PaidPart(r) ==
  [speelweek_id |-> r.speelweek_id, is_3d |-> r.is_3d,
   aantal_volw |-> r.aantal_volw, aantal_kind |-> r.aantal_kind,
   bedrag_volw |-> r.bedrag_volw, bedrag_kind |-> r.bedrag_kind,
   totaal_bedrag |-> r.totaal_bedrag]

\* C9: free tickets influence no monetary figure and no ticket numbering: an
\* edit of a free count changes only the free counts and totaal_aantal of
\* the stored rows, so the paid quantities and amounts that statements and
\* begin numbers are computed from stay as they were.
C9_FreeEditChangesOnlyFreeCount ==
  [][FreeEditStep =>
       /\ DOMAIN daily_sales' = DOMAIN daily_sales
       /\ \A k \in DOMAIN daily_sales :
            PaidPart(daily_sales'[k]) = PaidPart(daily_sales[k])
       /\ ticket_ranges' = ticket_ranges]_vars

\* a step of save_settings that ended with the error dialog of a rejected field
RejectedSaveStep ==
  /\ steps' # steps
  /\ last'.op = "save_settings"
  /\ ~last'.saved

\* C11: a save_settings call with an invalid field (week counter below 1,
\* a rate that is no non-negative number, a ticket start number below 1)
\* changes none of the six stored settings.
C11_NoPartialWrite ==
  [][RejectedSaveStep => settings' = settings]_vars

\* C12: in every reachable state the paid and the free counts of every
\* stored daily_sales row are >= 0.
C12_NoNegativeCounts ==
  \A k \in DOMAIN daily_sales :
    /\ daily_sales[k].aantal_volw >= 0
    /\ daily_sales[k].aantal_kind >= 0
    /\ daily_sales[k].gratis_volw >= 0
    /\ daily_sales[k].gratis_kind >= 0

\* a step of export_borderels_pdf_bo1
ExportStep == steps' # steps /\ last'.op = "export"

\* the ranges a step creates
NewRangeKeys == (DOMAIN ticket_ranges') \ (DOMAIN ticket_ranges)

\* the value a read of a global ticket counter gives (1 when unset)
CounterVolw == IF settings["ticket_counter_volw"] = NoSetting THEN 1
               ELSE settings["ticket_counter_volw"]
CounterKind == IF settings["ticket_counter_kind"] = NoSetting THEN 1
               ELSE settings["ticket_counter_kind"]

SetMax(S) == CHOOSE x \in S : \A y \in S : y <= x

\* C18: a range created for a film + zaal that has no range in any speelweek
\* with an earlier start date begins at the current values of the settings
\* ticket_counter_volw and ticket_counter_kind.
C18_FirstRunFallback ==
  [][ExportStep =>
       \A k \in NewRangeKeys :
         (\A a \in DOMAIN ticket_ranges' :
             ~(SameFilmZaal(a, k) /\ StartOf(a[1]) < StartOf(k[1]))) =>
           /\ ticket_ranges'[k].begin_volw = CounterVolw
           /\ ticket_ranges'[k].begin_kind = CounterKind]_vars

\* the first range of a film + zaal, created after the adult start number
\* was set to TicketStart in the settings
C18_Witness ==
  /\ last.op = "export"
  /\ Cardinality(DOMAIN ticket_ranges) = 1
  /\ \E k \in DOMAIN ticket_ranges :
       /\ ticket_ranges[k].begin_volw = TicketStart
       /\ ticket_ranges[k].begin_kind = DEFAULT_TICKET_COUNTER_KIND
  /\ Len(statements) = 1
  /\ statements[1].begin_volw = TicketStart

KeysWithRows(from_date, to_date) ==
  {<<daily_sales[x].speelweek_id, x[2], x[3]>> :
     x \in {y \in DOMAIN daily_sales : from_date <= y[1] /\ y[1] <= to_date}}

\* C20: an export makes statements and ranges only for (speelweek, film,
\* zaal) that have daily_sales rows in the period; for a period without rows
\* it makes no statement, creates no range and changes no ticket counter.
C20_NoDataNoStatement ==
  [][ExportStep =>
       LET keys == KeysWithRows(last'.from_date, last'.to_date)
       IN  /\ \A i \in 1..Len(statements') : StmtKey(statements'[i]) \in keys
           /\ NewRangeKeys \subseteq keys
           /\ keys = {} =>
                /\ statements' = <<>>
                /\ ticket_ranges' = ticket_ranges
                /\ settings' = settings]_vars

\* an export over a week without rows while another week has rows
C20_Witness ==
  /\ last.op = "export"
  /\ daily_sales # <<>>
  /\ KeysWithRows(last.from_date, last.to_date) = {}
  /\ statements = <<>>
  /\ ticket_ranges = <<>>

\* the documented default of a setting
DefaultOf(key) ==
  CASE key = "week_start_weekday" -> DEFAULT_WEEK_START_WEEKDAY
    [] key = "week_counter" -> DEFAULT_WEEK_COUNTER
    [] key = "btw_rate" -> DEFAULT_BTW_RATE
    [] key = "auteurs_rate" -> DEFAULT_AUTEURS_RATE
    [] key = "ticket_counter_volw" -> DEFAULT_TICKET_COUNTER_VOLW
    [] OTHER -> DEFAULT_TICKET_COUNTER_KIND

\* the stored value of a setting is missing or invalid
BadStored(key) ==
  \/ settings[key] \in {NoSetting, InvalidSetting}
  \/ key = "week_start_weekday" /\ settings[key] \notin 0..6

\* a call of open_csv, ended either way
ImportAttempt == steps' # steps /\ last'.op \in {"open_csv", "open_csv_failed"}

\* C13: a read of a setting whose stored value is missing or invalid ends
\* without error, uses the documented default and persists it: at start for
\* week_start_weekday, the two rates and the two ticket counters, and in
\* db_get_or_create_speelweek for week_counter, which creates the week with
\* number 1 and leaves a valid counter.
C13_ConfigRecovered ==
  [][/\ (last.op = "db" /\ last'.op = "init") =>
          \A key \in SettingKeys \ {"week_counter"} :
            settings'[key] = IF BadStored(key) THEN DefaultOf(key) ELSE settings[key]
     /\ ImportAttempt =>
          /\ last'.op = "open_csv"
          /\ (last'.created /\ BadStored("week_counter")) =>
                /\ last'.weeknummer = DEFAULT_WEEK_COUNTER
                /\ settings'["week_counter"] = DEFAULT_WEEK_COUNTER + 1]_vars

\* every row of the import table shows what is stored for its key
TreeShowsStored ==
  \A i \in 1..Len(tree) :
    /\ ItemKey(tree[i]) \in DOMAIN daily_sales
    /\ LET r == daily_sales[ItemKey(tree[i])]
       IN  /\ r.aantal_volw = tree[i].aantal_volw
           /\ r.aantal_kind = tree[i].aantal_kind
           /\ r.gratis_volw = tree[i].gratis_volw
           /\ r.gratis_kind = tree[i].gratis_kind
           /\ r.bedrag_volw = tree[i].bedrag_volw
           /\ r.bedrag_kind = tree[i].bedrag_kind
           /\ r.totaal_aantal = tree[i].totaal_aantal

\* C14: when db_upsert_daily_sales fails, the import table is left as it
\* was: a failed edit leaves the row's values, a failed import adds no row,
\* and the table shows only what is stored.
C14_FailedWriteNotShown ==
  [][/\ (steps' # steps /\ last'.op = "edit_import_unsaved") =>
          /\ tree' = tree
          /\ TreeShowsStored'
     /\ (steps' # steps /\ last'.op = "open_csv_unsaved") =>
          /\ tree' = <<>>
          /\ daily_sales' = daily_sales]_vars

\* the value a read of week_counter gives (1 when unset)
WeekCounterValue == IF WeekCounter = NoSetting THEN DEFAULT_WEEK_COUNTER ELSE WeekCounter

\* C15: an open_csv whose db_get_or_create_speelweek failed on a persistence
\* call leaves either both the new speelweek row and week_counter =
\* week number + 1, or neither a new row nor another counter value.
C15_WeekCreationAtomic ==
  [][(steps' # steps /\ last'.op = "open_csv_failed") =>
       \/ /\ speelweek' = speelweek
          /\ WeekCounterValue' = WeekCounterValue
       \/ /\ Len(speelweek') = Len(speelweek) + 1
          /\ WeekCounterValue' = speelweek'[Len(speelweek')].weeknummer + 1]_vars

\* C16: when two interleaved db_get_or_create_speelweek calls for dates of
\* one week without a row have ended, at most one speelweek row has those
\* bounds, the calls that returned got the same week number, and
\* week_counter has advanced by exactly 1.
C16_NoDoubleWeekNumber ==
  (CallsEnded /\ last.op = "speelweek_calls") =>
    /\ Cardinality({i \in 1..Len(speelweek) :
                      /\ speelweek[i].start_datum = last.start
                      /\ speelweek[i].eind_datum = last.end}) <= 1
    /\ \A p \in Sessions, q \in Sessions :
         (calls[p].pc = "done" /\ calls[q].pc = "done") =>
            calls[p].weeknummer = calls[q].weeknummer
    /\ settings["week_counter"] = last.week_counter + 1

\* C17: when two interleaved db_get_or_create_ticket_range calls for one
\* key without a range have ended, one range exists for the key and both
\* calls have returned its begin numbers.
C17_NoDuplicateRange ==
  (CallsEnded /\ last.op = "ticket_range_calls") =>
    /\ last.key \in DOMAIN ticket_ranges
    /\ \A p \in Sessions :
         /\ calls[p].pc = "done"
         /\ calls[p].begin_volw = ticket_ranges[last.key].begin_volw
         /\ calls[p].begin_kind = ticket_ranges[last.key].begin_kind

\* the handler of a week-number cell of the history table has run
WeeknrEditStep == steps' # steps /\ last'.op \in {"edit_weeknr", "edit_weeknr_rejected"}

\* the statement of every (speelweek, film, zaal) with rows, as an export
\* of the whole period would compute it from the speelweek table sw
StatementsWith(sw) ==
  {generate_borderel_bo1_pdf(settings, sw, daily_sales, ticket_ranges,
       db_fetch_week_sales_for_film_zaal(daily_sales, zalen, c[1], c[2], ZaalNaam(zalen, c[3])),
       DEFAULT_BTW_RATE, DEFAULT_AUTEURS_RATE).stmt :
     c \in {<<daily_sales[k].speelweek_id, k[2], k[3]>> : k \in DOMAIN daily_sales}}

\* C21: a correction of the week number of speelweek id to n changes the
\* weeknummer of that speelweek only: every other speelweek row, the bounds
\* of every speelweek, the ticket ranges, the daily_sales rows, the settings
\* (week_counter included) and the figures of every statement stay as they
\* were; a rejected input (n < 1) changes nothing.
C21_WeeknrEditIsMetadataOnly ==
  [][WeeknrEditStep =>
       /\ Len(speelweek') = Len(speelweek)
       /\ \A i \in 1..Len(speelweek) :
            /\ speelweek'[i].start_datum = speelweek[i].start_datum
            /\ speelweek'[i].eind_datum = speelweek[i].eind_datum
            /\ speelweek'[i].weeknummer =
                 IF i = last'.speelweek_id /\ last'.op = "edit_weeknr"
                 THEN last'.new_weeknr ELSE speelweek[i].weeknummer
       /\ UNCHANGED <<settings, films, zalen, daily_sales, ticket_ranges, tree, statements>>
       /\ StatementsWith(speelweek') = StatementsWith(speelweek)
       /\ (last'.op = "edit_weeknr_rejected" => speelweek' = speelweek)]_vars

\* a week number was corrected while another speelweek with another number
\* exists
C21_Witness ==
  /\ last.op = "edit_weeknr"
  /\ \E i \in 1..Len(speelweek) :
       i # last.speelweek_id /\ speelweek[i].weeknummer # last.new_weeknr
  /\ speelweek[last.speelweek_id].weeknummer = last.new_weeknr

\* the film lines of the imported file that count for the stored row k:
\* the film of the row, and its zaal or, without one, the zaal the user
\* entered
AttributedRows(file, zaal_ans, k) ==
  {i \in FilmRows(file.rows) :
     /\ file.rows[i].film = films'[k[2]]
     /\ (IF file.rows[i].zaal # 0 THEN file.rows[i].zaal ELSE zaal_ans) = ZaalNaam(zalen', k[3])}

\* C22: after an import for date d every stored row of d holds the sums of
\* all film lines of the file attributed to its film and zaal (adult and
\* child quantities, amounts up to the rounding to cents) and is 3D exactly
\* when one of these lines is; a line without zaal counts for the zaal the
\* user entered.
C22_ImportLosesNothing ==
  [][ImportStep =>
       \A k \in DOMAIN daily_sales' :
         k[1] = last'.d =>
           LET idx == AttributedRows(last'.file, last'.zaal_ans, k)
               r == daily_sales'[k]
           IN  /\ r.aantal_volw = SumRows(last'.file.rows, idx, FALSE, "aantal")
               /\ r.aantal_kind = SumRows(last'.file.rows, idx, TRUE, "aantal")
               /\ r.bedrag_volw * 10 - SumRows(last'.file.rows, idx, FALSE, "bedrag") \in -5..5
               /\ r.bedrag_kind * 10 - SumRows(last'.file.rows, idx, TRUE, "bedrag") \in -5..5
               /\ r.is_3d = (\E i \in idx : last'.file.rows[i].is_3d)]_vars

\* C23: every stored daily_sales row has totaal_aantal = aantal_volw +
\* aantal_kind + gratis_volw + gratis_kind, after every import and every
\* edit of a paid or a free cell.
C23_TotalQtyIsSum ==
  \A k \in DOMAIN daily_sales :
    daily_sales[k].totaal_aantal =
      daily_sales[k].aantal_volw + daily_sales[k].aantal_kind
      + daily_sales[k].gratis_volw + daily_sales[k].gratis_kind

\* a free cell of an imported row with paid tickets was edited and saved
C23_Witness ==
  /\ last.op = "edit_import"
  /\ last.col_name = "Gratis volwassenen"
  /\ last.new_aantal = 1
  /\ \E k \in DOMAIN daily_sales :
       /\ k = ItemKey(tree[last.item])
       /\ daily_sales[k].gratis_volw = 1
       /\ daily_sales[k].aantal_volw + daily_sales[k].aantal_kind >= 1
       /\ daily_sales[k].totaal_aantal >= 2

\* C24: every stored daily_sales row has totaal_bedrag = bedrag_volw +
\* bedrag_kind on the stored values (each rounded to cents), for every pair
\* of amounts of an import and after every cell edit.
C24_TotalAmountIsSum ==
  \A k \in DOMAIN daily_sales :
    daily_sales[k].totaal_bedrag = daily_sales[k].bedrag_volw + daily_sales[k].bedrag_kind

\* the free counts of the daily_sales row k of ds, 0 without a row
FreeVolw(ds, k) == IF k \in DOMAIN ds THEN ds[k].gratis_volw ELSE 0
FreeKind(ds, k) == IF k \in DOMAIN ds THEN ds[k].gratis_kind ELSE 0

\* the handler of a cell of the import table has run and saved the row
EditStep == steps' # steps /\ last'.op = "edit_import"

\* C25: every daily_sales row written by an import has gratis_volw = 0 and
\* gratis_kind = 0, and a free count of a row gets a non-zero value only in
\* a cell edit of that row.
C25_FreeOnlyByEdit ==
  [][/\ ImportStep =>
          \A i \in 1..Len(tree') :
            /\ daily_sales'[ItemKey(tree'[i])].gratis_volw = 0
            /\ daily_sales'[ItemKey(tree'[i])].gratis_kind = 0
     /\ \A k \in DOMAIN daily_sales' :
          (\/ FreeVolw(daily_sales', k) \notin {0, FreeVolw(daily_sales, k)}
           \/ FreeKind(daily_sales', k) \notin {0, FreeKind(daily_sales, k)})
          => (EditStep /\ ItemKey(tree'[last'.item]) = k)]_vars

\* the free-children cell of an imported row was edited to 1 and saved
C25_Witness ==
  /\ last.op = "edit_import"
  /\ last.col_name = "Gratis kinderen"
  /\ last.new_aantal = 1
  /\ ItemKey(tree[last.item]) \in DOMAIN daily_sales
  /\ daily_sales[ItemKey(tree[last.item])].gratis_kind = 1

\* C26: when two interleaved db_get_or_create_speelweek calls for dates of
\* two different weeks without a row, started with week_counter = k, have
\* ended, both have returned, the two new speelweeks have the numbers k and
\* k + 1, and week_counter is k + 2.
C26_DistinctWeekNumbers ==
  (CallsEnded /\ last.op = "speelweek_calls_apart") =>
    /\ \A p \in Sessions : calls[p].pc = "done"
    /\ {speelweek[calls[p].id].weeknummer : p \in Sessions}
         = {last.week_counter, last.week_counter + 1}
    /\ settings["week_counter"] = last.week_counter + 2

\* date d lies in the window [start_datum, eind_datum) of speelweek i
InWindow(d, i) == speelweek[i].start_datum <= d /\ d < speelweek[i].eind_datum

\* C27: in every reachable state, also after week_start_weekday was changed
\* between imports, no date lies in the windows of two different speelweek
\* rows, and the date of every daily_sales row lies in the window of the
\* speelweek the row links to.
C27_WindowsDisjoint ==
  /\ \A i \in 1..Len(speelweek), j \in 1..Len(speelweek) :
       i # j => ~\E d \in 0..(7 * (MaxWeek + 1)) : InWindow(d, i) /\ InWindow(d, j)
  /\ \A k \in DOMAIN daily_sales : InWindow(k[1], daily_sales[k].speelweek_id)

\* C28: in one export run the statements are generated in ascending order
\* of the speelweek start_datum, so for a film and zaal with sales in two
\* weeks A and B of the run, A before B, the statement of A (and with it
\* the ticket range of A) is made before the range of B is created.
C28_ExportInWeekOrder ==
  [][ExportStep =>
       \A i \in 1..Len(statements'), j \in 1..Len(statements') :
         /\ (i < j => StartOf(statements'[i].speelweek_id)
                        <= StartOf(statements'[j].speelweek_id))
         /\ (/\ StmtKey(statements'[j]) \in NewRangeKeys
             /\ SameFilmZaal(StmtKey(statements'[i]), StmtKey(statements'[j]))
             /\ StartOf(statements'[i].speelweek_id) < StartOf(statements'[j].speelweek_id))
            => i < j]_vars

\* an export made the statements of two weeks of one film and zaal, the
\* earlier week being the one that was imported (and got its id) later
C28_Witness ==
  /\ last.op = "export"
  /\ Len(statements) >= 2
  /\ SameFilmZaal(StmtKey(statements[1]), StmtKey(statements[2]))
  /\ statements[1].speelweek_id > statements[2].speelweek_id
  /\ StartOf(statements[1].speelweek_id) < StartOf(statements[2].speelweek_id)
  /\ StmtKey(statements[2]) \in DOMAIN ticket_ranges

\* the sum of one figure over the seven day lines of a statement
SumLines(lines, field) ==
  lines[0][field] + lines[1][field] + lines[2][field] + lines[3][field]
  + lines[4][field] + lines[5][field] + lines[6][field]

C29_OneFilePerStatement ==
  [][ExportStep =>
       /\ \A i \in 1..Len(statements'), j \in 1..Len(statements') :
            i # j => out_path(speelweek, films, StmtKey(statements'[i]))
                       # out_path(speelweek, films, StmtKey(statements'[j]))
       /\ last'.ok = Cardinality(last'.files)]_vars

====
